---- MODULE Spec2Model ----
(***************************************************************************)
(* Model of the real-time connection manager of the dashboard:             *)
(* WebSocketService (src/src/lib/websocket.ts) together with the browser   *)
(* WebSocket objects and timers it drives.                                  *)
(*                                                                         *)
(* Time is discrete.  The heartbeat interval timer and every pong-wait     *)
(* timer carry the number of ticks left until they are due; a due timer    *)
(* fires before time advances.  The reconnect timer's delay is random      *)
(* (jitter), so it may fire at any moment while it is armed.               *)
(***************************************************************************)
EXTENDS Integers, Sequences, FiniteSets, TLC

\* ------------------------------------------------------------------ bounds
MaxAttemptsCfg == 2      \* largest reconnect.maxAttempts explored
MaxInterval == 2         \* largest heartbeat.interval explored (ticks)
MaxTimeout == 2          \* largest heartbeat.timeout explored (ticks)
MaxOrphans == 1          \* sockets alive beside this.socket
MaxSubs == 2             \* subscriptions ever registered in one run
MaxFrames == 2           \* frames recorded in the delivery log
MaxBackoffAttempts == 4  \* largest reconnect.maxAttempts of the backoff
MaxInitialDelay == 3     \* largest reconnect.initialDelay explored
MaxDelayCfg == 8         \* largest reconnect.maxDelay explored
RandomSteps == 4         \* Math.random() is one of k / RandomSteps
MaxOrderId == 2          \* order ids are 1..MaxOrderId
MaxListLen == 3          \* longest cached list explored
MaxCallId == 2           \* call ids are 1..MaxCallId

\* --------------------------------------------------------------- constants
NULL == -1               \* a timer field holding null
CloseCodes == {1000, 1001, 1006, 4001, 4003}
EventTypes == {"call.started", "order.created"}

VARIABLES
    config,              \* this.config (reconnect and heartbeat parts)
    status,              \* this.state.status
    lastConnected,       \* this.state.lastConnected: "null" or "date"
    lastError,           \* this.state.lastError: "null" or the message
    reconnectAttempts,   \* this.state.reconnectAttempts
    socket,              \* this.socket: "null" or its readyState
    orphans,             \* CLOSING sockets no longer in this.socket whose
                         \* callbacks are still bound to the service
    task,                \* "idle", or "socket": the error event of
                         \* this.socket was dispatched and its close event
                         \* follows in the same task
    reconnectTimer,      \* this.reconnectTimer and the attempts it captured
    heartbeatTimer,      \* this.heartbeatTimer: NULL or ticks until due
    pongTimer,           \* this.pongTimer: "null" or "armed" (the timer of
                         \* the last record of pings)
    pings,               \* pings with an armed pong-wait timer or awaiting
                         \* their pong on the open connection, oldest first
    notified,            \* statuses passed to the state listeners by the
                         \* last operation, in order
    lastOp,              \* the last operation that ran
    closeCode,           \* the close code handled by the last operation
    firedPing,           \* the ping whose pong-wait timer fired last
    sinceDisconnect,     \* disconnect() returned and no caller has called
                         \* connect() or reconnect() since
    retries,             \* reconnect timers fired since the last open or
                         \* disconnect()
    subscriptions,       \* this.subscriptions in insertion order
    subscriptionIdCounter,
    frameNo,             \* frames received so far
    lastFrame,           \* the frame received last
    delivered,           \* handler invocations, in order: the frame's
                         \* number, the subscription's id, the type of the
                         \* event handed over, what the handler did, and
                         \* whether the subscription's unsubscribe function
                         \* had been called before
    unsubscribed,        \* ids whose unsubscribe function has been called
    escaped,             \* an exception left dispatchEvent in the last
                         \* message event
    lastId,              \* the id the last subscribe or unsubscribe call
                         \* of a caller was for
    reconnectDelay,      \* totalDelay of the last scheduleReconnect, in
                         \* units of 1 / Scale
    listCache,           \* the query cache entry ordersKeys.list(tenantId)
    detailCache,         \* the entries ordersKeys.detail(tenantId, id)
    lastEvent,           \* the event the cache bridge handled last
    listBefore,          \* listCache before that event
    callList,            \* the query cache entry callsKeys.list(tenantId)
    callDetail,          \* the entries callsKeys.detail(tenantId, id)
    lastCallEvent,       \* the call event the cache bridge handled last
    callListBefore,      \* callList before that event
    hookStatus           \* state.status of the render of useWebSocket whose
                         \* effects ran last, "unmounted" before the first

svcVars == <<status, lastConnected, lastError, reconnectAttempts, socket,
             orphans, task, reconnectTimer, heartbeatTimer, pongTimer,
             pings, notified>>
histVars == <<lastOp, closeCode, firedPing, sinceDisconnect, retries>>
subVars == <<subscriptions, subscriptionIdCounter, frameNo, lastFrame,
             delivered, unsubscribed, escaped, lastId>>
extVars == <<reconnectDelay, listCache, detailCache, lastEvent, listBefore,
             callList, callDetail, lastCallEvent, callListBefore,
             hookStatus>>
vars == <<config, svcVars, histVars, subVars, extVars>>

\* DEFAULT_CONFIG merged with the constructor's argument: the configurations
\* explored.  With reconnect or heartbeat disabled the other numbers of that
\* part are never read.
ReconnectConfigs ==
    [enabled : {TRUE}, maxAttempts : 0..MaxAttemptsCfg]
    \cup {[enabled |-> FALSE, maxAttempts |-> MaxAttemptsCfg]}

HeartbeatConfigs ==
    [enabled : {TRUE}, interval : 1..MaxInterval, timeout : 1..MaxTimeout]
    \cup {[enabled |-> FALSE, interval |-> 1, timeout |-> 1]}

Configs == [reconnect : ReconnectConfigs, heartbeat : HeartbeatConfigs]

\* The service's mutable state as one value, so that handlers compose.
S ==
    [status |-> status, lastConnected |-> lastConnected,
     lastError |-> lastError, reconnectAttempts |-> reconnectAttempts,
     socket |-> socket, orphans |-> orphans, task |-> task,
     reconnectTimer |-> reconnectTimer, heartbeatTimer |-> heartbeatTimer,
     pongTimer |-> pongTimer, pings |-> pings, notified |-> <<>>]

Set(r) ==
    /\ status' = r.status
    /\ lastConnected' = r.lastConnected
    /\ lastError' = r.lastError
    /\ reconnectAttempts' = r.reconnectAttempts
    /\ socket' = r.socket
    /\ orphans' = r.orphans
    /\ task' = r.task
    /\ reconnectTimer' = r.reconnectTimer
    /\ heartbeatTimer' = r.heartbeatTimer
    /\ pongTimer' = r.pongTimer
    /\ pings' = r.pings
    /\ notified' = r.notified

NoTimer == [state |-> "null", attempts |-> 0]
NoOrder == [id |-> 0, rev |-> 0]
NoList == [present |-> FALSE, items |-> <<>>]
NoEvent == [type |-> "none", order |-> NoOrder]
NoDetails == [i \in 1..MaxOrderId |-> NoOrder]
NoCall == [id |-> 0, rev |-> 0]
NoCallEvent == [type |-> "none", call |-> NoCall]
NoCallDetails == [i \in 1..MaxCallId |-> NoCall]
NoPing == [left |-> 0, armed |-> FALSE, answered |-> FALSE, conn |-> "none"]

\* ---------------------------------------------------------- state updates
\* updateState followed by notifyStateListeners: merge the updates, then
\* every listener is handed the new state.
updateState(s, updates) ==
    LET merged == [k \in DOMAIN s |->
                     IF k \in DOMAIN updates THEN updates[k] ELSE s[k]]
    IN [merged EXCEPT !.notified = Append(@, merged.status)]

\* ------------------------------------------------------------------ timers
\* A ping's record is kept while its timer is armed or its pong may come.
Prune(ps) ==
    SelectSeq(ps, LAMBDA p : p.armed \/ (~p.answered /\ p.conn = "live"))

\* The connection the pings were sent on is gone: no pong will come.
ConnGone(ps) ==
    Prune([i \in DOMAIN ps |->
             IF ps[i].conn = "live" THEN [ps[i] EXCEPT !.conn = "gone"]
             ELSE ps[i]])

\* clearTimeout(this.pongTimer): the timer the field holds is the one armed
\* by the latest ping.
ClearPongTimer(s) ==
    IF s.pongTimer = "armed"
    THEN LET last == Len(s.pings) IN
         [s EXCEPT !.pongTimer = "null",
                   !.pings = Prune([s.pings EXCEPT ![last].armed = FALSE])]
    ELSE s

stopHeartbeat(s) ==
    ClearPongTimer([s EXCEPT !.heartbeatTimer = NULL])

startHeartbeat(s) ==
    IF ~config.heartbeat.enabled THEN s
    ELSE [stopHeartbeat(s) EXCEPT
            !.heartbeatTimer = config.heartbeat.interval]

clearTimers(s) ==
    [stopHeartbeat(s) EXCEPT !.reconnectTimer = NoTimer]

sendPing(s) ==
    IF s.socket # "OPEN" THEN s
    ELSE [s EXCEPT
            !.pings = Append(@, [left |-> config.heartbeat.timeout,
                                 armed |-> TRUE, answered |-> FALSE,
                                 conn |-> "live"]),
            !.pongTimer = "armed"]

handlePong(s) == ClearPongTimer(s)

scheduleReconnect(s) ==
    [s EXCEPT !.reconnectTimer =
                [state |-> "armed", attempts |-> s.reconnectAttempts]]

\* ------------------------------------------------------ connection control
\* The socket in this.socket can still deliver events to the service.
SocketLive(s) ==
    \/ s.socket \in {"CONNECTING", "OPEN", "CLOSING"}
    \/ s.socket = "CLOSED" /\ s.task = "socket"

\* this.socket = new WebSocket(...): a CLOSING socket it replaces keeps its
\* callbacks and still has its close event to deliver.
NewSocket(s) ==
    [s EXCEPT
       !.socket = "CONNECTING",
       !.orphans = IF s.socket = "CLOSING" THEN @ + 1 ELSE @]

\* connect().  throws: new URL(...) or new WebSocket(...) throws.
connect(s, token, throws) ==
    IF s.socket = "OPEN" THEN s
    ELSE IF s.socket = "CONNECTING" THEN s
    ELSE IF ~token
    THEN updateState(s, [status |-> "error",
                         lastError |-> "No access token"])
    ELSE LET c == updateState(s, [status |-> "connecting"])
         IN IF throws
            THEN updateState(c, [status |-> "error",
                                 lastError |-> "Connection failed"])
            ELSE NewSocket(c)

disconnect(s) ==
    LET c == clearTimers(s)
        closed == IF c.socket # "null"
                  THEN [c EXCEPT
                          !.socket = "null",
                          !.pings = ConnGone(@),
                          !.task = IF @ = "socket" THEN "idle" ELSE @]
                  ELSE c
    IN updateState(closed, [status |-> "disconnected",
                            reconnectAttempts |-> 0])

reconnect(s, token, throws) ==
    connect(disconnect(s), token, throws)

\* ---------------------------------------------------------- socket events
handleOpen(s) ==
    startHeartbeat(updateState(s, [status |-> "connected",
                                   lastConnected |-> "date",
                                   lastError |-> "null",
                                   reconnectAttempts |-> 0]))

\* shouldReconnect with <= for <: one retry too many.
shouldReconnectOffByOne(s, code) ==
    /\ config.reconnect.enabled
    /\ code # 1000
    /\ code # 4001
    /\ code # 4003
    /\ s.reconnectAttempts <= config.reconnect.maxAttempts

\* shouldReconnect without the test for 4003: a forbidden client retries.
shouldReconnectNo4003(s, code) ==
    /\ config.reconnect.enabled
    /\ code # 1000
    /\ code # 4001
    /\ s.reconnectAttempts < config.reconnect.maxAttempts

shouldReconnect(s, code) ==
    /\ config.reconnect.enabled
    /\ code # 1000
    /\ code # 4001
    /\ code # 4003
    /\ s.reconnectAttempts < config.reconnect.maxAttempts

handleClose(s, code) ==
    LET c == clearTimers(s)
        d == updateState(c, [status |-> "disconnected"])
    IN IF shouldReconnect(c, code) THEN scheduleReconnect(d) ELSE d

handleError(s) ==
    updateState(s, [status |-> "error", lastError |-> "WebSocket error"])

\* --------------------------------------------------------------- dispatch
\* handleMessage builds the event as { type: message.type, ...payload }: a
\* payload that has a type field of its own replaces the frame's.
EventType(frame) ==
    IF frame.payloadType # "none" THEN frame.payloadType ELSE frame.type

\* What a handler does when it is invoked: return, throw, call the
\* unsubscribe function of subscription target, or subscribe a plain handler
\* to the type of the event it was handed.
Handlers ==
    [kind : {"returns", "throws", "subscribes"}, target : {0}]
    \cup [kind : {"unsubscribes"}, target : 1..MaxSubs]

\* The registry as one value, so that handlers can change it while
\* dispatchEvent iterates: this.subscriptions in insertion order,
\* this.subscriptionIdCounter, and what the dispatch has done so far.
D ==
    [subs |-> subscriptions, counter |-> subscriptionIdCounter,
     unsubscribed |-> unsubscribed, calls |-> <<>>, thrown |-> FALSE]

\* subscribe with an id taken from the number of entries: reused after an
\* unsubscribe.
subscribeReusingIds(d, types, handler) ==
    [d EXCEPT !.counter = @ + 1,
              !.subs = Append(@, [id |-> Len(d.subs) + 1,
                                  eventType |-> types,
                                  handler |-> handler])]

\* subscribe(eventTypes, handler): the id is `sub_${++counter}`; a single
\* type is matched as [type].
subscribe(d, types, handler) ==
    [d EXCEPT !.counter = @ + 1,
              !.subs = Append(@, [id |-> d.counter + 1,
                                  eventType |-> types,
                                  handler |-> handler])]

\* An unsubscribe function that leaves the entry in the map.
unsubscribeKeepsEntry(d, id) ==
    [d EXCEPT !.unsubscribed = @ \cup {id}]

\* The function subscribe returned for id: this.subscriptions.delete(id).
unsubscribe(d, id) ==
    [d EXCEPT !.subs = SelectSeq(@, LAMBDA s : s.id # id),
              !.unsubscribed = @ \cup {id}]

\* subscription.handler(event): the invocation is recorded, then the
\* handler acts.  A handler can only call an unsubscribe function that
\* exists.
invoke(d, sub, type) ==
    LET h == sub.handler
        called == [d EXCEPT !.calls =
                      Append(@, [sub |-> sub.id, type |-> type,
                                 kind |-> h.kind,
                                 gone |-> sub.id \in d.unsubscribed])]
    IN CASE h.kind = "throws" -> [called EXCEPT !.thrown = TRUE]
         [] h.kind = "unsubscribes" ->
                IF h.target <= called.counter
                THEN unsubscribe(called, h.target) ELSE called
         [] h.kind = "subscribes" ->
                subscribe(called, {type},
                          [kind |-> "returns", target |-> 0])
         [] OTHER -> called

\* The handler invoked without the try block around it.
tryHandlerNoCatch(d, sub, type) == invoke(d, sub, type)

\* try { subscription.handler(event) } catch { console.error(...) }
tryHandler(d, sub, type) ==
    [invoke(d, sub, type) EXCEPT !.thrown = FALSE]

\* this.subscriptions.forEach: Map.forEach visits the entries in insertion
\* order, which is the order of the ids; an entry deleted before its turn is
\* not visited, an entry added during the iteration is.  last: the id
\* visited last.  An exception thrown in the callback ends the iteration.
RECURSIVE dispatchFrom(_, _, _)
dispatchFrom(d, last, type) ==
    LET rest == {i \in DOMAIN d.subs : d.subs[i].id > last}
    IN IF rest = {} \/ d.thrown THEN d
       ELSE LET i == CHOOSE i \in rest : \A j \in rest : i <= j
                sub == d.subs[i]
            IN IF type \in sub.eventType
               THEN dispatchFrom(tryHandler(d, sub, type), sub.id, type)
               ELSE dispatchFrom(d, sub.id, type)

dispatchEvent(d, type) == dispatchFrom(d, 0, type)

\* --------------------------------------------------------------- history
Hist(op, code, fired, since, rt) ==
    /\ lastOp' = op
    /\ closeCode' = code
    /\ firedPing' = fired
    /\ sinceDisconnect' = since
    /\ retries' = rt

Room(r) == r.orphans <= MaxOrphans

\* ------------------------------------------------------------ the callers
\* The token is read from the auth store at each call: set or not.
Connect ==
    \E token \in BOOLEAN, throws \in BOOLEAN :
        LET r == connect(S, token, throws) IN
        /\ task = "idle"
        /\ Room(r)
        /\ Set(r)
        /\ Hist("connect", 0, NoPing, FALSE, retries)
        /\ UNCHANGED <<config, extVars, subVars>>

Disconnect ==
    /\ task = "idle"
    /\ Set(disconnect(S))
    /\ Hist("disconnect", 0, NoPing, TRUE, 0)
    /\ UNCHANGED <<config, extVars, subVars>>

Reconnect ==
    \E token \in BOOLEAN, throws \in BOOLEAN :
        /\ task = "idle"
        /\ Set(reconnect(S, token, throws))
        /\ Hist("reconnect", 0, NoPing, FALSE, 0)
        /\ UNCHANGED <<config, extVars, subVars>>

\* ------------------------------------------------------- the socket's side
\* The handshake completes: the open event.
SocketOpen ==
    /\ task = "idle"
    /\ socket = "CONNECTING"
    /\ Set(handleOpen([S EXCEPT !.socket = "OPEN"]))
    /\ Hist("open", 0, NoPing, sinceDisconnect, 0)
    /\ UNCHANGED <<config, extVars, subVars>>

\* The connection fails: the error event, with the close event to follow in
\* the same task.
SocketError ==
    /\ task = "idle"
    /\ socket \in {"CONNECTING", "OPEN"}
    /\ Set(handleError([S EXCEPT !.socket = "CLOSED", !.task = "socket",
                                 !.pings = ConnGone(@)]))
    /\ Hist("error", 0, NoPing, sinceDisconnect, retries)
    /\ UNCHANGED <<config, extVars, subVars>>

\* The close event of the socket that just failed (code 1006).
SocketCloseAfterError ==
    /\ task # "idle"
    /\ Set(handleClose([S EXCEPT !.task = "idle"], 1006))
    /\ Hist("close", 1006, NoPing, sinceDisconnect, retries)
    /\ UNCHANGED <<config, extVars, subVars>>

\* The server starts the closing handshake: readyState becomes CLOSING, the
\* close event comes in a later task.
SocketClosing ==
    /\ task = "idle"
    /\ socket = "OPEN"
    /\ Set([S EXCEPT !.socket = "CLOSING", !.pings = ConnGone(@)])
    /\ Hist("closing", 0, NoPing, sinceDisconnect, retries)
    /\ UNCHANGED <<config, extVars, subVars>>

\* The close event of this.socket when it did not fail, with the code the
\* server sent (1006: the connection was lost).
SocketClose ==
    \E code \in CloseCodes :
        /\ task = "idle"
        /\ socket \in {"OPEN", "CLOSING"}
        /\ Set(handleClose([S EXCEPT !.socket = "CLOSED",
                                     !.pings = ConnGone(@)], code))
        /\ Hist("close", code, NoPing, sinceDisconnect, retries)
        /\ UNCHANGED <<config, extVars, subVars>>

\* The close event of a socket that connect() replaced while it was CLOSING.
OrphanClose ==
    \E code \in CloseCodes :
        /\ task = "idle"
        /\ orphans > 0
        /\ Set(handleClose([S EXCEPT !.orphans = @ - 1], code))
        /\ Hist("close", code, NoPing, sinceDisconnect, retries)
        /\ UNCHANGED <<config, extVars, subVars>>

\* ------------------------------------------------------------- the timers
Armed(ps) == {i \in DOMAIN ps : ps[i].armed}

\* Time advances by one tick: no timer is due.
Tick ==
    /\ task = "idle"
    /\ heartbeatTimer # 0
    /\ \A i \in Armed(pings) : pings[i].left > 0
    /\ heartbeatTimer > 0 \/ Armed(pings) # {}
    /\ heartbeatTimer' =
           IF heartbeatTimer > 0 THEN heartbeatTimer - 1 ELSE heartbeatTimer
    /\ pings' = [i \in DOMAIN pings |->
                   IF pings[i].armed
                   THEN [pings[i] EXCEPT !.left = @ - 1] ELSE pings[i]]
    /\ lastOp' = "tick"
    /\ UNCHANGED <<config, extVars, status, lastConnected, lastError,
                   reconnectAttempts, socket, orphans, task, reconnectTimer,
                   pongTimer, notified, closeCode, firedPing,
                   sinceDisconnect, retries, subVars>>

\* The setInterval callback of startHeartbeat: sendPing, and the interval
\* runs on.
HeartbeatTick ==
    /\ task = "idle"
    /\ heartbeatTimer = 0
    /\ Set([sendPing(S) EXCEPT
              !.heartbeatTimer = config.heartbeat.interval])
    /\ Hist("ping", 0, NoPing, sinceDisconnect, retries)
    /\ UNCHANGED <<config, extVars, subVars>>

\* The record of the timer that fires leaves the list; the pings of the
\* connection it was armed on are marked as already reconnected for.
FirePong(s, i) ==
    LET rest == [j \in DOMAIN s.pings |->
                   IF j = i THEN [s.pings[j] EXCEPT !.armed = FALSE]
                   ELSE IF s.pings[i].conn = "live"
                             /\ s.pings[j].conn = "live"
                        THEN [s.pings[j] EXCEPT !.conn = "reconnected"]
                        ELSE s.pings[j]]
    IN [s EXCEPT
          !.pings = Prune([rest EXCEPT ![i].conn = "gone"]),
          !.pongTimer = IF i = Len(s.pings) THEN "null" ELSE @]

\* The setTimeout callback of sendPing: no pong came, reconnect().
PongTimeout ==
    \E i \in Armed(pings), token \in BOOLEAN, throws \in BOOLEAN :
        /\ task = "idle"
        /\ pings[i].left = 0
        /\ Set(reconnect(FirePong(S, i), token, throws))
        /\ Hist("pongTimeout", 0, pings[i], sinceDisconnect, 0)
        /\ UNCHANGED <<config, extVars, subVars>>

\* The setTimeout callback of scheduleReconnect.
ReconnectTimerFire ==
    \E token \in BOOLEAN, throws \in BOOLEAN :
        LET fired == [S EXCEPT !.reconnectTimer.state = "fired"]
            bumped == updateState(fired,
                        [reconnectAttempts |->
                            reconnectTimer.attempts + 1])
            r == connect(bumped, token, throws)
        IN /\ task = "idle"
           /\ reconnectTimer.state = "armed"
           /\ Room(r)
           /\ Set(r)
           /\ Hist("retry", 0, NoPing, sinceDisconnect, retries + 1)
           /\ UNCHANGED <<config, extVars, subVars>>

\* --------------------------------------------------------- inbound frames
\* The server answers the oldest ping it has not answered yet.
AckOldest(ps) ==
    LET open == {i \in DOMAIN ps : ~ps[i].answered /\ ps[i].conn = "live"}
        first == CHOOSE i \in open : \A j \in open : i <= j
    IN [ps EXCEPT ![first].answered = TRUE]

NoFrame == [type |-> "none", payloadType |-> "none", parses |-> FALSE]

PongFrame ==
    [type |-> "system.pong", payloadType |-> "none", parses |-> TRUE]

\* The frames: a domain event whose payload may have a type field of its
\* own, the heartbeat reply, or text that JSON.parse rejects.
Frames ==
    [type : {"call.started"}, payloadType : {"order.created", "none"},
     parses : {TRUE}]
    \cup {PongFrame, NoFrame}

\* handleMessage without the test for 'system.pong': the reply is handed to
\* the subscribers as well.
handleMessageDispatchesPong(s, d, frame) ==
    IF ~frame.parses THEN [state |-> s, d |-> d]
    ELSE IF frame.type = "system.pong"
    THEN [state |-> handlePong(s),
          d |-> dispatchEvent(d, EventType(frame))]
    ELSE [state |-> s, d |-> dispatchEvent(d, EventType(frame))]

\* handleMessage treating a frame it cannot parse as a socket error.
handleMessageErrorOnGarbage(s, d, frame) ==
    IF ~frame.parses THEN [state |-> handleError(s), d |-> d]
    ELSE IF frame.type = "system.pong"
    THEN [state |-> handlePong(s), d |-> d]
    ELSE [state |-> s, d |-> dispatchEvent(d, EventType(frame))]

\* handleMessage: the service state and the registry after the event.  The
\* catch around the whole body swallows what JSON.parse or dispatchEvent
\* throws.
handleMessage(s, d, frame) ==
    IF ~frame.parses THEN [state |-> s, d |-> d]
    ELSE IF frame.type = "system.pong"
    THEN [state |-> handlePong(s), d |-> d]
    ELSE [state |-> s, d |-> dispatchEvent(d, EventType(frame))]

\* A 'system.pong' frame arrives on the open socket in reply to a ping.
SocketPong ==
    /\ task = "idle"
    /\ socket = "OPEN"
    /\ \E i \in DOMAIN pings : ~pings[i].answered /\ pings[i].conn = "live"
    /\ LET acked == [S EXCEPT !.pings = AckOldest(@)]
       IN Set([handleMessage(acked, D, PongFrame).state EXCEPT
                 !.pings = Prune(@)])
    /\ Hist("pong", 0, NoPing, sinceDisconnect, retries)
    /\ UNCHANGED <<config, extVars, subVars>>

\* ------------------------------------------------------- the specification
Init ==
    /\ config \in Configs
    /\ status = "disconnected"
    /\ lastConnected = "null"
    /\ lastError = "null"
    /\ reconnectAttempts = 0
    /\ socket = "null"
    /\ orphans = 0
    /\ task = "idle"
    /\ reconnectTimer = NoTimer
    /\ heartbeatTimer = NULL
    /\ pongTimer = "null"
    /\ pings = <<>>
    /\ notified = <<>>
    /\ lastOp = "new"
    /\ closeCode = 0
    /\ firedPing = NoPing
    /\ sinceDisconnect = FALSE
    /\ retries = 0
    /\ subscriptions = <<>>
    /\ subscriptionIdCounter = 0
    /\ frameNo = 0
    /\ lastFrame = NoFrame
    /\ delivered = <<>>
    /\ unsubscribed = {}
    /\ escaped = FALSE
    /\ lastId = 0
    /\ reconnectDelay = 0
    /\ listCache = NoList
    /\ detailCache = NoDetails
    /\ lastEvent = NoEvent
    /\ listBefore = NoList
    /\ callList = NoList
    /\ callDetail = NoCallDetails
    /\ lastCallEvent = NoCallEvent
    /\ callListBefore = NoList
    /\ hookStatus = "unmounted"

Next ==
    \/ Connect
    \/ Disconnect
    \/ Reconnect
    \/ SocketOpen
    \/ SocketError
    \/ SocketCloseAfterError
    \/ SocketClosing
    \/ SocketClose
    \/ OrphanClose
    \/ SocketPong
    \/ Tick
    \/ HeartbeatTick
    \/ PongTimeout
    \/ ReconnectTimerFire

Spec == Init /\ [][Next]_vars

\* ------------------------------------------------ the dispatcher's actions
\* The types a caller subscribes to: WebSocketEventType includes the system
\* events.
SubscribableTypes == EventTypes \cup {"system.pong"}

\* eventTypes of a subscribe call: a single type, or the array of all types.
EventTypeSets == {{ty} : ty \in EventTypes} \cup {SubscribableTypes}

\* A caller calls subscribe(eventTypes, handler).
Subscribe ==
    \E types \in EventTypeSets, h \in Handlers :
        LET r == subscribe(D, types, h) IN
        /\ subscriptionIdCounter < MaxSubs
        /\ subscriptions' = r.subs
        /\ subscriptionIdCounter' = r.counter
        /\ lastOp' = "subscribe"
        /\ lastId' = r.counter
        /\ UNCHANGED <<config, extVars, svcVars, closeCode, firedPing,
                       sinceDisconnect, retries, frameNo, lastFrame,
                       delivered, unsubscribed, escaped>>

\* A caller calls the function subscribe returned for id, the first time or
\* again.
Unsubscribe ==
    \E id \in 1..subscriptionIdCounter :
        LET r == unsubscribe(D, id) IN
        /\ subscriptions' = r.subs
        /\ unsubscribed' = r.unsubscribed
        /\ lastOp' = IF id \in unsubscribed THEN "unsubscribeAgain"
                      ELSE "unsubscribe"
        /\ lastId' = id
        /\ UNCHANGED <<config, extVars, svcVars, closeCode, firedPing,
                       sinceDisconnect, retries, subscriptionIdCounter,
                       frameNo, lastFrame, delivered, escaped>>

\* The message event of the open socket.
SocketMessage ==
    \E frame \in Frames :
        LET pong == frame.parses /\ frame.type = "system.pong"
            owed == \E i \in DOMAIN pings :
                        ~pings[i].answered /\ pings[i].conn = "live"
            acked == IF pong /\ owed
                     THEN [S EXCEPT !.pings = AckOldest(@)] ELSE S
            r == handleMessage(acked, D, frame)
        IN
        /\ task = "idle"
        /\ socket = "OPEN"
        /\ frameNo < MaxFrames
        /\ r.d.counter <= MaxSubs
        /\ Set([r.state EXCEPT !.pings = Prune(@)])
        /\ subscriptions' = r.d.subs
        /\ subscriptionIdCounter' = r.d.counter
        /\ unsubscribed' = r.d.unsubscribed
        /\ escaped' = r.d.thrown
        /\ frameNo' = frameNo + 1
        /\ lastFrame' = frame
        /\ delivered' =
               delivered \o [i \in DOMAIN r.d.calls |->
                               [frame |-> frameNo + 1,
                                sub |-> r.d.calls[i].sub,
                                type |-> r.d.calls[i].type,
                                kind |-> r.d.calls[i].kind,
                                gone |-> r.d.calls[i].gone]]
        /\ Hist("message", 0, NoPing, sinceDisconnect, retries)
        /\ lastId' = 0
        /\ UNCHANGED <<config, extVars>>

\* The dispatcher on an open connection with the heartbeat running: the
\* state after connect(), the open event and the first ping.
InitDispatch ==
    /\ config \in {c \in Configs :
                     /\ ~c.reconnect.enabled
                     /\ c.heartbeat.enabled
                     /\ c.heartbeat.interval = 1
                     /\ c.heartbeat.timeout = 1}
    /\ status = "connected"
    /\ lastConnected = "date"
    /\ lastError = "null"
    /\ reconnectAttempts = 0
    /\ socket = "OPEN"
    /\ orphans = 0
    /\ task = "idle"
    /\ reconnectTimer = NoTimer
    /\ heartbeatTimer = config.heartbeat.interval
    /\ pongTimer = "armed"
    /\ pings = <<[left |-> config.heartbeat.timeout, armed |-> TRUE,
                  answered |-> FALSE, conn |-> "live"]>>
    /\ notified = <<>>
    /\ lastOp = "ping"
    /\ closeCode = 0
    /\ firedPing = NoPing
    /\ sinceDisconnect = FALSE
    /\ retries = 0
    /\ subscriptions = <<>>
    /\ subscriptionIdCounter = 0
    /\ frameNo = 0
    /\ lastFrame = NoFrame
    /\ delivered = <<>>
    /\ unsubscribed = {}
    /\ escaped = FALSE
    /\ lastId = 0
    /\ reconnectDelay = 0
    /\ listCache = NoList
    /\ detailCache = NoDetails
    /\ lastEvent = NoEvent
    /\ listBefore = NoList
    /\ callList = NoList
    /\ callDetail = NoCallDetails
    /\ lastCallEvent = NoCallEvent
    /\ callListBefore = NoList
    /\ hookStatus = "unmounted"

NextDispatch ==
    \/ Subscribe
    \/ Unsubscribe
    \/ SocketMessage

SpecDispatch == InitDispatch /\ [][NextDispatch]_vars

\* ------------------------------------------------------------ the backoff
\* Configurations for the backoff: reconnect enabled, heartbeat off.
BackoffConfigs ==
    [reconnect : [enabled : {TRUE}, maxAttempts : 1..MaxBackoffAttempts,
                  initialDelay : 0..MaxInitialDelay,
                  maxDelay : 0..MaxDelayCfg],
     heartbeat : {[enabled |-> FALSE, interval |-> 1, timeout |-> 1]}]

RECURSIVE Pow2(_)
Pow2(n) == IF n = 0 THEN 1 ELSE 2 * Pow2(n - 1)

Min(a, b) == IF a <= b THEN a ELSE b

\* delay * 0.2 * Math.random() is delay * rnd / (5 * RandomSteps): delays
\* are kept as multiples of 1 / Scale.
Scale == 5 * RandomSteps

\* const delay = Math.min(initialDelay * Math.pow(2, attempts), maxDelay)
delay(attempts) ==
    Min(config.reconnect.initialDelay * Pow2(attempts),
        config.reconnect.maxDelay)

\* const jitter = delay * 0.2 * Math.random(), times Scale
jitter(attempts, rnd) == delay(attempts) * rnd

\* totalDelay without the cap of maxDelay.
totalDelayUncapped(attempts, rnd) ==
    config.reconnect.initialDelay * Pow2(attempts) * Scale
      + config.reconnect.initialDelay * Pow2(attempts) * rnd

\* const totalDelay = delay + jitter, times Scale
totalDelay(attempts, rnd) ==
    delay(attempts) * Scale + jitter(attempts, rnd)

\* The close event of a socket whose handshake failed: handleClose, with
\* the delay scheduleReconnect hands to setTimeout.
BackoffClose ==
    \E rnd \in 0..(RandomSteps - 1) :
        LET r == handleClose([S EXCEPT !.socket = "CLOSED"], 1006) IN
        /\ task = "idle"
        /\ socket = "CONNECTING"
        /\ Set(r)
        /\ reconnectDelay' =
               IF r.reconnectTimer.state = "armed"
               THEN totalDelay(reconnectAttempts, rnd)
               ELSE reconnectDelay
        /\ Hist("close", 1006, NoPing, sinceDisconnect, retries)
        /\ UNCHANGED <<config, subVars, listCache, detailCache, lastEvent,
                       listBefore, callList, callDetail, lastCallEvent,
                       callListBefore, hookStatus>>

\* The state after the first connect() with a token.
InitBackoff ==
    /\ config \in BackoffConfigs
    /\ status = "connecting"
    /\ lastConnected = "null"
    /\ lastError = "null"
    /\ reconnectAttempts = 0
    /\ socket = "CONNECTING"
    /\ orphans = 0
    /\ task = "idle"
    /\ reconnectTimer = NoTimer
    /\ heartbeatTimer = NULL
    /\ pongTimer = "null"
    /\ pings = <<>>
    /\ notified = <<"connecting">>
    /\ lastOp = "connect"
    /\ closeCode = 0
    /\ firedPing = NoPing
    /\ sinceDisconnect = FALSE
    /\ retries = 0
    /\ subscriptions = <<>>
    /\ subscriptionIdCounter = 0
    /\ frameNo = 0
    /\ lastFrame = NoFrame
    /\ delivered = <<>>
    /\ unsubscribed = {}
    /\ escaped = FALSE
    /\ lastId = 0
    /\ reconnectDelay = 0
    /\ listCache = NoList
    /\ detailCache = NoDetails
    /\ lastEvent = NoEvent
    /\ listBefore = NoList
    /\ callList = NoList
    /\ callDetail = NoCallDetails
    /\ lastCallEvent = NoCallEvent
    /\ callListBefore = NoList
    /\ hookStatus = "unmounted"

NextBackoff ==
    \/ BackoffClose
    \/ ReconnectTimerFire

SpecBackoff == InitBackoff /\ [][NextBackoff]_vars

\* ------------------------------------------------------- the cache bridge
\* An order: its id and the revision of its content, two revisions being
\* enough to tell an entry that was replaced from one that was kept.
Orders == [id : 1..MaxOrderId, rev : {1, 2}]

OrderEventTypes == {"order.created", "order.updated", "order.cancelled"}

\* The two kinds of query cache entries the bridge writes.
Cache == [list |-> listCache, detail |-> detailCache]

\* oldOrders.map((o) => (o.id === order.id ? order : o))
MapReplace(items, order) ==
    [i \in DOMAIN items |->
       IF items[i].id = order.id THEN order ELSE items[i]]

\* An update that moves the entry to the front of the list.
handleOrderUpdateMovesToFront(c, type, order) ==
    [list |-> IF c.list.present
              THEN [present |-> TRUE,
                    items |-> <<order>> \o
                        SelectSeq(c.list.items,
                                  LAMBDA o : o.id # order.id)]
              ELSE IF type = "order.created"
                   THEN [present |-> TRUE, items |-> <<order>>]
                   ELSE c.list,
     detail |-> [c.detail EXCEPT ![order.id] = order]]

\* handleOrderUpdate.  An updater that returns undefined leaves the entry
\* as it is.
handleOrderUpdate(c, type, order) ==
    IF type = "order.created"
    THEN [c EXCEPT !.list =
            [present |-> TRUE,
             items |-> IF c.list.present
                       THEN <<order>> \o c.list.items
                       ELSE <<order>>]]
    ELSE [list |-> IF c.list.present
                   THEN [c.list EXCEPT
                           !.items = MapReplace(@, order)]
                   ELSE c.list,
          detail |-> [c.detail EXCEPT ![order.id] = order]]

\* An order event is dispatched to the bridge's handler.
OrderEvent ==
    \E type \in OrderEventTypes, order \in Orders :
        LET r == handleOrderUpdate(Cache, type, order) IN
        /\ Len(r.list.items) <= MaxListLen
        /\ listCache' = r.list
        /\ detailCache' = r.detail
        /\ lastEvent' = [type |-> type, order |-> order]
        /\ listBefore' = listCache
        /\ lastOp' = "orderEvent"
        /\ UNCHANGED <<config, svcVars, closeCode, firedPing,
                       sinceDisconnect, retries, subVars, reconnectDelay,
                       callList, callDetail, lastCallEvent, callListBefore,
                       hookStatus>>

NextCache == OrderEvent

\* The bridge on an open connection, with nothing cached.
SpecCache == InitDispatch /\ [][NextCache]_vars

\* A call: its id and the revision of its content.
Calls == [id : 1..MaxCallId, rev : {1, 2}]

CallEventTypes == {"call.started", "call.updated", "call.ended"}

CallCache == [list |-> callList, detail |-> callDetail]

\* oldCalls.findIndex((c) => c.id === call.id) >= 0
HasId(items, id) == \E i \in DOMAIN items : items[i].id = id

\* const newCalls = [...oldCalls]; newCalls[index] = call, index being the
\* first position that holds the id.
ReplaceFirst(items, call) ==
    LET index == CHOOSE i \in DOMAIN items :
                     /\ items[i].id = call.id
                     /\ \A j \in 1..(i - 1) : items[j].id # call.id
    IN [items EXCEPT ![index] = call]

\* The updater of 'call.started' and 'call.updated'.
upsertCall(list, type, call) ==
    IF ~list.present
    THEN [present |-> TRUE, items |-> <<call>>]
    ELSE IF HasId(list.items, call.id)
         THEN [list EXCEPT !.items = ReplaceFirst(@, call)]
         ELSE IF type = "call.started"
              THEN [list EXCEPT !.items = <<call>> \o @]
              ELSE list

\* handleCallUpdate.  Every case writes the detail entry of the call.
handleCallUpdate(c, type, call) ==
    [list |-> IF type = "call.ended"
              THEN IF c.list.present
                   THEN [c.list EXCEPT !.items = MapReplace(@, call)]
                   ELSE c.list
              ELSE upsertCall(c.list, type, call),
     detail |-> [c.detail EXCEPT ![call.id] = call]]

\* A call event is dispatched to the bridge's handler.
CallEvent ==
    \E type \in CallEventTypes, call \in Calls :
        LET r == handleCallUpdate(CallCache, type, call) IN
        /\ Len(r.list.items) <= MaxListLen
        /\ callList' = r.list
        /\ callDetail' = r.detail
        /\ lastCallEvent' = [type |-> type, call |-> call]
        /\ callListBefore' = callList
        /\ lastOp' = "callEvent"
        /\ UNCHANGED <<config, svcVars, closeCode, firedPing,
                       sinceDisconnect, retries, subVars, reconnectDelay,
                       listCache, detailCache, lastEvent, listBefore,
                       hookStatus>>

NextCallCache == CallEvent

\* The bridge on an open connection, with no call cached.
SpecCallCache == InitDispatch /\ [][NextCallCache]_vars

\* The service with its timers and event tasks run by the browser's event
\* loop: an armed setTimeout callback is run unless it is cleared, and the
\* close event queued behind an error event is delivered.
SpecLive ==
    /\ Init
    /\ [][Next]_vars
    /\ WF_vars(ReconnectTimerFire)
    /\ WF_vars(SocketCloseAfterError)

\* ------------------------------------------------- the useWebSocket hook
\* The composition with a mounted hook: the default option autoConnect and
\* a user who stays logged in.  setAuth stores the access token together
\* with isAuthenticated, so the hook's connect() finds a token.
autoConnect == TRUE
isAuthenticated == TRUE

\* The auto-connect effect.  Its dependencies are the options, the login
\* flag and state.status: it runs after the first render and after every
\* render that saw another status than the render before.
HookEffect ==
    \E throws \in BOOLEAN :
        LET r == IF autoConnect /\ isAuthenticated
                    /\ status = "disconnected"
                 THEN connect(S, TRUE, throws)
                 ELSE IF ~isAuthenticated /\ status # "disconnected"
                      THEN disconnect(S)
                      ELSE S
        IN /\ task = "idle"
           /\ hookStatus # status
           /\ Room(r)
           /\ hookStatus' = status
           /\ IF autoConnect /\ isAuthenticated /\ status = "disconnected"
              THEN /\ Set(r)
                   /\ Hist("autoConnect", 0, NoPing, FALSE, retries)
              ELSE IF ~isAuthenticated /\ status # "disconnected"
                   THEN /\ Set(r)
                        /\ Hist("autoDisconnect", 0, NoPing, TRUE, 0)
                   ELSE /\ lastOp' = "effect"
                        /\ UNCHANGED <<svcVars, closeCode, firedPing,
                                       sinceDisconnect, retries>>
           /\ UNCHANGED <<config, subVars, reconnectDelay, listCache,
                          detailCache, lastEvent, listBefore, callList,
                          callDetail, lastCallEvent, callListBefore>>

NextHook ==
    \/ Connect
    \/ Disconnect
    \/ Reconnect
    \/ SocketOpen
    \/ SocketError
    \/ SocketCloseAfterError
    \/ SocketClosing
    \/ SocketClose
    \/ OrphanClose
    \/ SocketPong
    \/ Tick
    \/ HeartbeatTick
    \/ PongTimeout
    \/ ReconnectTimerFire
    \/ HookEffect

\* The service with the hook mounted.
SpecHook == Init /\ [][NextHook]_vars

\* ================================================================ claims
\* Sockets that can still deliver an event to the service.
LiveSockets == (IF SocketLive(S) THEN 1 ELSE 0) + orphans

\* C1: whenever status is 'connected', reconnectAttempts is 0 and lastError
\* is null.
C1_ConnectedIsClean ==
    status = "connected" => reconnectAttempts = 0 /\ lastError = "null"

\* C2: a connect() made while status is 'connected' or 'connecting' creates
\* no socket, changes no field of the state and notifies no listener.
C2_IdempotentConnect ==
    [][(lastOp' = "connect" /\ status \in {"connected", "connecting"})
         => /\ UNCHANGED <<status, reconnectAttempts, lastError,
                           lastConnected, socket, orphans>>
            /\ notified' = <<>>]_vars

\* C3: after disconnect(), until a caller calls connect() or reconnect(), no
\* heartbeat timer of the session fires (neither the interval timer nor a
\* pong-wait timer armed by an earlier ping).
C3_NoHeartbeatAfterDisconnect ==
    sinceDisconnect => lastOp \notin {"ping", "pongTimeout"}

\* C4: at most one socket can deliver events to the service at any time.
C4_OneLiveSocket == LiveSockets <= 1

\* C5: never more than maxAttempts retries in a row, and the close that
\* follows maxAttempts retries without an open in between schedules no
\* reconnect timer and leaves status 'disconnected'.
C5_AttemptExhaustion ==
    /\ retries <= config.reconnect.maxAttempts
    /\ (lastOp = "close" /\ retries >= config.reconnect.maxAttempts)
          => reconnectTimer.state # "armed" /\ status = "disconnected"

C5_Witness ==
    /\ lastOp = "close"
    /\ closeCode = 1006
    /\ config.reconnect.enabled
    /\ config.reconnect.maxAttempts = 2
    /\ retries = 2
    /\ reconnectTimer.state # "armed"

\* C6: a close event leaves status 'disconnected' and a reconnect timer
\* armed exactly when reconnect is enabled, the code is none of 1000, 4001,
\* 4003 and reconnectAttempts < maxAttempts; that timer is for the current
\* attempt count.
C6_ClosePolicy ==
    lastOp = "close" =>
        /\ status = "disconnected"
        /\ reconnectTimer.state \in {"null", "armed"}
        /\ (reconnectTimer.state = "armed") <=>
              /\ config.reconnect.enabled
              /\ closeCode \notin {1000, 4001, 4003}
              /\ reconnectAttempts < config.reconnect.maxAttempts
        /\ reconnectTimer.state = "armed" =>
              reconnectTimer.attempts = reconnectAttempts

C6_Witness ==
    /\ lastOp = "close"
    /\ closeCode = 4003
    /\ config.reconnect.enabled
    /\ reconnectAttempts < config.reconnect.maxAttempts
    /\ reconnectTimer.state = "null"
    /\ status = "disconnected"

\* C7: a pong-wait timer that fires invokes reconnect() for a connection
\* the heartbeat has not already invoked it for: once per stale connection.
C7_ReconnectOncePerConnection ==
    lastOp = "pongTimeout" => firedPing.conn # "reconnected"

\* C8: the heartbeat invokes reconnect() only for a ping that was not
\* answered before its pong-wait timer expired.
C8_AnsweredPingNeverReconnects ==
    lastOp = "pongTimeout" => ~firedPing.answered

\* C9: the heartbeat interval timer or a pong-wait timer is armed only
\* while status is 'connected'.
C9_HeartbeatOnlyWhileConnected ==
    (heartbeatTimer # NULL \/ Armed(pings) # {}) => status = "connected"

\* The subscriptions a frame of this type is meant for, in registration
\* order.
Matching(subs, type) ==
    LET hits == SelectSeq(subs, LAMBDA s : type \in s.eventType)
    IN [i \in DOMAIN hits |-> hits[i].id]

DeliveredFor(n) ==
    LET ds == SelectSeq(delivered, LAMBDA d : d.frame = n)
    IN [i \in DOMAIN ds |-> ds[i].sub]

\* C10: a domain-event frame is delivered exactly once to every
\* subscription whose event types contain the frame's type and to no other,
\* in registration order; deliveries follow the frames' arrival order.
C10_FanOutInOrder ==
    /\ \A i \in 1..(Len(delivered) - 1) :
           delivered[i].frame <= delivered[i + 1].frame
    /\ (lastOp = "message" /\ lastFrame.parses
            /\ lastFrame.type # "system.pong")
          => DeliveredFor(frameNo) = Matching(subscriptions, lastFrame.type)

\* The ids invoked for frame n of a delivery log, in order.
DeliveredIn(log, n) ==
    LET ds == SelectSeq(log, LAMBDA e : e.frame = n)
    IN [i \in DOMAIN ds |-> ds[i].sub]

Ids(subs) == {subs[i].id : i \in DOMAIN subs}

\* Kinds of the handlers invoked for frame n.
KindsIn(log, n) == {log[i].kind : i \in {j \in DOMAIN log : log[j].frame = n}}

\* C11: when handlers subscribe or unsubscribe during the dispatch of a
\* frame, every subscription registered before the dispatch began that
\* matches the frame's type and has not been unsubscribed is invoked exactly
\* once for the frame, in registration order.
C11_DispatchSurvivesChanges ==
    [][(/\ lastOp' = "message"
        /\ frameNo' = frameNo + 1
        /\ lastFrame'.parses
        /\ lastFrame'.type # "system.pong"
        /\ KindsIn(delivered', frameNo')
              \cap {"subscribes", "unsubscribes"} # {})
         => LET kept == SelectSeq(subscriptions,
                          LAMBDA s : /\ lastFrame'.type \in s.eventType
                                     /\ s.id \notin unsubscribed')
                got == SelectSeq(DeliveredIn(delivered', frameNo'),
                          LAMBDA id : id \in Ids(kept))
            IN got = [i \in DOMAIN kept |-> kept[i].id]]_vars

\* C12: a subscription whose unsubscribe function has been called, by a
\* caller or by a handler during a dispatch, is never invoked afterwards,
\* and the dispatch in which a handler unsubscribes completes.
C12_NoDeliveryAfterUnsubscribe ==
    /\ \A i \in DOMAIN delivered : ~delivered[i].gone
    /\ ~escaped

\* Subscription 1 received frame 1 and unsubscribed itself in its handler;
\* frame 2 of the same type reached subscription 2 only.
C12_Witness ==
    /\ frameNo = 2
    /\ 1 \in unsubscribed
    /\ \E i, j \in DOMAIN delivered :
          /\ delivered[i].frame = 1 /\ delivered[i].sub = 1
          /\ delivered[i].kind = "unsubscribes"
          /\ delivered[j].frame = 2 /\ delivered[j].sub = 2
          /\ delivered[j].type = delivered[i].type
    /\ 1 \notin {delivered[k].sub : k \in {m \in DOMAIN delivered :
                                              delivered[m].frame = 2}}

\* Ids are unique, were handed out by the counter, and none is in use
\* again after its unsubscribe function was called.
IdsUniqueNeverReused ==
    /\ \A i, j \in DOMAIN subscriptions :
          i < j => subscriptions[i].id < subscriptions[j].id
    /\ \A i \in DOMAIN subscriptions :
          subscriptions[i].id \in 1..subscriptionIdCounter
    /\ Ids(subscriptions) \cap unsubscribed = {}

\* What a caller's subscribe or unsubscribe call does to the registry.
RegistryStep ==
    /\ (lastOp' \in {"unsubscribe", "unsubscribeAgain"}) =>
          (/\ subscriptions' =
                 SelectSeq(subscriptions, LAMBDA s : s.id # lastId')
           /\ subscriptionIdCounter' = subscriptionIdCounter)
    /\ (lastOp' = "unsubscribeAgain") => (subscriptions' = subscriptions)
    /\ (lastOp' = "subscribe") =>
          (/\ lastId' \notin Ids(subscriptions) \cup unsubscribed
           /\ Len(subscriptions') = Len(subscriptions) + 1
           /\ subscriptions'[Len(subscriptions')].id = lastId'
           /\ SubSeq(subscriptions', 1, Len(subscriptions)) =
                  subscriptions)

\* C13: ids are unique and never reused; an unsubscribe function removes
\* exactly the registration it was returned for, and calling it again
\* changes nothing.
C13_UnsubscribeExactAndIdempotent ==
    []IdsUniqueNeverReused /\ [][RegistryStep]_vars

\* The function returned for subscription 1 was called a second time, with
\* subscription 2 registered.
C13_Witness ==
    /\ lastOp = "unsubscribeAgain"
    /\ lastId = 1
    /\ Ids(subscriptions) = {2}

\* C14: when a handler throws, the subscriptions registered after it that
\* match the event are still invoked, no exception leaves dispatchEvent, and
\* the connection state and the timers are as before.
C14_ThrowingHandlerIsContained ==
    [][(lastOp' = "message" /\ frameNo' = frameNo + 1
          /\ "throws" \in KindsIn(delivered', frameNo'))
         => /\ \A i \in DOMAIN delivered' :
                 (delivered'[i].frame = frameNo'
                    /\ delivered'[i].kind = "throws")
                 => (\A k \in DOMAIN subscriptions :
                      (/\ subscriptions[k].id > delivered'[i].sub
                       /\ delivered'[i].type \in subscriptions[k].eventType
                       /\ subscriptions[k].id \notin unsubscribed')
                      => (\E j \in DOMAIN delivered' :
                           /\ j > i
                           /\ delivered'[j].frame = frameNo'
                           /\ delivered'[j].sub = subscriptions[k].id))
            /\ ~escaped'
            /\ UNCHANGED <<status, lastConnected, lastError,
                           reconnectAttempts, socket, orphans, task,
                           reconnectTimer, heartbeatTimer, pongTimer,
                           pings>>
            /\ notified' = <<>>]_vars

\* Subscription 1 threw for the last frame and subscription 2 was invoked
\* after it.
C14_Witness ==
    /\ lastOp = "message"
    /\ \E i, j \in DOMAIN delivered :
          /\ i < j
          /\ delivered[i].frame = frameNo /\ delivered[j].frame = frameNo
          /\ delivered[i].sub = 1 /\ delivered[i].kind = "throws"
          /\ delivered[j].sub = 2
    /\ pongTimer = "armed"

\* C15: a frame of type 'system.pong' clears the pong-wait timer and
\* invokes no handler.
C15_PongIsNotDelivered ==
    (lastOp = "message" /\ lastFrame.parses
        /\ lastFrame.type = "system.pong")
      => /\ DeliveredIn(delivered, frameNo) = <<>>
         /\ pongTimer = "null"

\* The first frame was a pong while a subscription to 'system.pong' was
\* registered.
C15_Witness ==
    /\ lastOp = "message"
    /\ frameNo = 1
    /\ lastFrame.parses /\ lastFrame.type = "system.pong"
    /\ \E i \in DOMAIN subscriptions :
          "system.pong" \in subscriptions[i].eventType
    /\ pongTimer = "null"
    /\ delivered = <<>>

\* C16: a frame that cannot be parsed invokes no handler, throws nothing,
\* leaves the connection state, the timers and the registry as they were;
\* the frame after it is delivered to the matching subscriptions.
C16_UnparsableFrameIsDropped ==
    [][/\ (lastOp' = "message" /\ frameNo' = frameNo + 1
              /\ ~lastFrame'.parses)
           => /\ delivered' = delivered
              /\ ~escaped'
              /\ UNCHANGED <<status, lastConnected, lastError,
                             reconnectAttempts, socket, orphans, task,
                             reconnectTimer, heartbeatTimer, pongTimer,
                             pings, subscriptions, subscriptionIdCounter,
                             unsubscribed>>
              /\ notified' = <<>>
       /\ (/\ lastOp = "message" /\ ~lastFrame.parses /\ frameNo >= 1
           /\ lastOp' = "message" /\ frameNo' = frameNo + 1
           /\ lastFrame'.parses /\ lastFrame'.type # "system.pong"
           /\ \A i \in DOMAIN subscriptions :
                 subscriptions[i].handler.kind \in {"returns", "throws"})
           => DeliveredIn(delivered', frameNo') =
                 Matching(subscriptions, EventType(lastFrame'))]_vars

\* The second frame could not be parsed, with two subscriptions registered,
\* the first frame delivered to both and the pong-wait timer armed.
C16_Witness ==
    /\ lastOp = "message"
    /\ frameNo = 2
    /\ ~lastFrame.parses
    /\ Len(subscriptions) = 2
    /\ DeliveredIn(delivered, 1) = <<1, 2>>
    /\ DeliveredIn(delivered, 2) = <<>>
    /\ pongTimer = "armed"

\* A caller calls connect(), disconnect() or reconnect().
CallerActs == lastOp' \in {"connect", "disconnect", "reconnect"}

\* C17: connect() without a token sets status 'error' and records the
\* error, creates no socket and schedules no reconnect timer; status then
\* stays 'error' until a caller acts.
C17_NoTokenNoRetry ==
    [][/\ (lastOp' = "connect" /\ status' = "error"
              /\ notified' = <<"error">>)
           => /\ lastError' = "No access token"
              /\ UNCHANGED <<socket, orphans, reconnectTimer>>
       /\ (status = "error" /\ lastError = "No access token"
              /\ ~CallerActs)
           => status' = "error"]_vars

\* The reconnection policy approves a retry in the state after the step.
RetryApproved ==
    config.reconnect.enabled
      /\ reconnectAttempts' < config.reconnect.maxAttempts

\* C18: a failure to open the socket, thrown by the constructor inside
\* connect() or reported by an error event followed by the close event,
\* sets status 'error', records lastError and schedules a retry when the
\* policy approves one.
C18_OpenFailureRetried ==
    [][/\ (lastOp' \in {"connect", "reconnect"}
              /\ Len(notified') >= 2
              /\ notified'[Len(notified') - 1] = "connecting"
              /\ notified'[Len(notified')] = "error")
           => /\ status' = "error"
              /\ lastError' # "null"
              /\ RetryApproved => reconnectTimer'.state = "armed"
       /\ (lastOp' = "error" /\ status = "connecting")
           => status' = "error" /\ lastError' # "null"
       /\ (lastOp = "error" /\ status = "error" /\ lastOp' = "close")
           => /\ lastError' # "null"
              /\ RetryApproved => reconnectTimer'.state = "armed"]_vars

\* base(n) of the claim, from the configuration.
ClaimBase(n) ==
    Min(config.reconnect.initialDelay * Pow2(n), config.reconnect.maxDelay)

\* C19: the delay of the reconnect timer scheduled for attempt count n lies
\* between base(n) and 1.2 * base(n), and base is non-decreasing over
\* 0..maxAttempts-1.
C19_BackoffBounds ==
    /\ reconnectTimer.state = "armed" =>
          /\ reconnectTimer.attempts \in
                0..(config.reconnect.maxAttempts - 1)
          /\ Scale * ClaimBase(reconnectTimer.attempts) <= reconnectDelay
          /\ 5 * reconnectDelay <=
                6 * Scale * ClaimBase(reconnectTimer.attempts)
    /\ \A n \in 0..(config.reconnect.maxAttempts - 2) :
          ClaimBase(n) <= ClaimBase(n + 1)

\* The timer for attempt count 3 is armed with the delay capped at maxDelay
\* and a jitter above zero.
C19_Witness ==
    /\ reconnectTimer.state = "armed"
    /\ reconnectTimer.attempts = 3
    /\ config.reconnect.initialDelay * Pow2(3) > config.reconnect.maxDelay
    /\ config.reconnect.maxDelay > config.reconnect.initialDelay
    /\ config.reconnect.initialDelay > 0
    /\ reconnectDelay > Scale * config.reconnect.maxDelay

\* C20: an 'order.updated' event for an order whose id is in the cached
\* list leaves the list's length and order, replaces the entries with that
\* id by the event's order and no other, and writes the order to the
\* single-entity entry of its id.
C20_UpsertOnUpdate ==
    (/\ lastOp = "orderEvent"
     /\ lastEvent.type = "order.updated"
     /\ listBefore.present
     /\ \E i \in DOMAIN listBefore.items :
           listBefore.items[i].id = lastEvent.order.id)
      => /\ listCache.present
         /\ Len(listCache.items) = Len(listBefore.items)
         /\ \A i \in DOMAIN listBefore.items :
               listCache.items[i] =
                  IF listBefore.items[i].id = lastEvent.order.id
                  THEN lastEvent.order ELSE listBefore.items[i]
         /\ detailCache[lastEvent.order.id] = lastEvent.order

\* The second of two cached orders was updated to a new revision.
C20_Witness ==
    /\ lastOp = "orderEvent"
    /\ lastEvent.type = "order.updated"
    /\ Len(listBefore.items) = 2
    /\ listBefore.items[1].id # listBefore.items[2].id
    /\ listBefore.items[2].id = lastEvent.order.id
    /\ listBefore.items[2].rev # lastEvent.order.rev
    /\ listCache.items = <<listBefore.items[1], lastEvent.order>>
    /\ detailCache[lastEvent.order.id] = lastEvent.order

\* Whether no two entries of a list have the same id.
UniqueIds(items) ==
    \A i, j \in DOMAIN items : (items[i].id = items[j].id) => (i = j)

\* C21: an 'order.created' event handled on a cached list whose ids are
\* unique leaves a list whose ids are unique: an order whose id is already
\* listed is replaced, never listed a second time.
C21_CreatedKeepsIdsUnique ==
    (/\ lastOp = "orderEvent"
     /\ lastEvent.type = "order.created"
     /\ UniqueIds(listBefore.items))
    => UniqueIds(listCache.items)

\* C22: a 'call.updated' or 'call.ended' event whose call is not in the
\* cached list leaves the list as it was, and leaves it absent when none
\* is cached.
C22_NoPhantomInsert ==
    (/\ lastOp = "callEvent"
     /\ lastCallEvent.type \in {"call.updated", "call.ended"}
     /\ ~HasId(callListBefore.items, lastCallEvent.call.id))
    => callList = callListBefore

\* C23: after an order event the detail entry of the order's id holds the
\* order of the event.
C23_EventWritesDetail ==
    (lastOp = "orderEvent")
    => detailCache[lastEvent.order.id] = lastEvent.order

\* The status changes of the specification's state machine, with the
\* operation that makes each: connect() is called by a caller, by
\* reconnect() and by the reconnect timer.
Connects == {"connect", "reconnect", "retry", "pongTimeout"}

StatusChangeAllowed(from, to, op) ==
    \/ from = to
    \/ to = "connecting" /\ from = "disconnected" /\ op \in Connects
    \/ to = "connected" /\ from = "connecting" /\ op = "open"
    \/ /\ to = "error"
       /\ from \in {"disconnected", "connecting"}
       /\ op \in Connects \cup {"error"}
    \/ /\ to = "disconnected"
       /\ op \in {"disconnect", "reconnect", "pongTimeout", "close"}

\* The operations that go through updateState.
UpdatesState(op) ==
    op \in Connects \cup {"disconnect", "open", "error", "close", "closing",
                          "ping", "pong", "message"}

\* C24: every change of status, the ones in the middle of an operation
\* included, is a transition of the specification's state machine:
\* disconnected -> connecting by connect(), connecting -> connected by the
\* open event, disconnected/connecting -> error by a failed connect() or
\* open, anything -> disconnected by disconnect() or a close event.
C24_StatusMachine ==
    [][IF UpdatesState(lastOp')
       THEN \A i \in 1..Len(notified') :
               StatusChangeAllowed((<<status>> \o notified')[i],
                                   notified'[i], lastOp')
       ELSE status' = status]_vars

\* What may change reconnectAttempts in one step.
AttemptsStep ==
    (reconnectAttempts' # reconnectAttempts)
    => \/ /\ lastOp' = "retry"
          /\ reconnectAttempts' = reconnectAttempts + 1
       \/ /\ lastOp' \in {"open", "disconnect", "reconnect", "pongTimeout"}
          /\ reconnectAttempts' = 0

\* C25: reconnectAttempts grows only when a reconnect timer fires, and then
\* by exactly 1; it returns to 0 only on the open event and in disconnect();
\* no other step changes it, and it never exceeds reconnect.maxAttempts.
C25_AttemptsCounter ==
    /\ [](reconnectAttempts <= config.reconnect.maxAttempts)
    /\ [][AttemptsStep]_vars

\* C26: with the hook mounted and its first effect run, once an unexpected
\* close event (any code but 1000) has left status 'disconnected' and
\* this.socket still holds the closed socket, the hook issues no connect():
\* the next connect() comes from a caller or from the reconnect timer.
C26_NoAutoConnectAfterClose ==
    [][(/\ hookStatus # "unmounted"
        /\ status = "disconnected"
        /\ socket = "CLOSED"
        /\ closeCode \in CloseCodes \ {1000})
       => (lastOp' # "autoConnect")]_vars

\* C27: every event handed to a handler for a parsed frame that is not a
\* pong carries the type of the frame, whatever the payload holds.
C27_RoutedTypeIsFrameType ==
    (lastOp = "message" /\ lastFrame.parses
        /\ lastFrame.type # "system.pong")
    => \A i \in DOMAIN delivered :
          (delivered[i].frame = frameNo)
          => (delivered[i].type = lastFrame.type)

\* C29: no reconnect timer is armed beside a 'connecting' or 'connected'
\* session (the least the claim asks: it allows an armed timer only while
\* status is 'disconnected').
C29_NoTimerBesideSession ==
    (reconnectTimer.state = "armed")
    => (status \notin {"connecting", "connected"})

\* The ids of the subscriptions a message step invoked for its frame.
InvokedNow == {delivered'[i].sub :
                 i \in {j \in DOMAIN delivered' :
                          delivered'[j].frame = frameNo'}}

\* C30: a frame is delivered only to subscriptions that were registered
\* when its dispatch began; a subscription a handler registers during the
\* dispatch does not receive the frame in flight.
C30_OnlySubscribersAtStart ==
    [][(lastOp' = "message" /\ frameNo' = frameNo + 1)
       => (InvokedNow \subseteq Ids(subscriptions))]_vars

\* A close event that the policy approved for retry was just handled.
ApprovedClose == lastOp = "close" /\ reconnectTimer.state = "armed"

\* The last operation called connect() and status entered 'connecting'.
EnteredConnecting ==
    /\ lastOp \in Connects
    /\ \E i \in DOMAIN notified : notified[i] = "connecting"

\* disconnect() was called, by a caller or by reconnect().
DisconnectCalled == lastOp \in {"disconnect", "reconnect", "pongTimeout"}

\* The reconnect timer fired and connect() found no token.
RetryWithoutToken ==
    /\ lastOp = "retry"
    /\ status = "error"
    /\ lastError = "No access token"

\* C28: a close event approved for retry leaves status 'disconnected', and
\* from then on, unless disconnect() is called or the timer's connect()
\* finds no token, status eventually enters 'connecting' again; an open
\* event then makes it 'connected'.
C28_RetryEventuallyConnects ==
    /\ [](ApprovedClose => (status = "disconnected"))
    /\ ApprovedClose
         ~> (EnteredConnecting \/ DisconnectCalled \/ RetryWithoutToken)
    /\ [][(lastOp' = "open") => (status' = "connected")]_vars
====
